---- MODULE Spec2Model ----
(***************************************************************************)
(* Model of the product-details screen (ProductDetailsScreen,              *)
(* ProductDetails) and of the BottomSheet component it is shown in.        *)
(*                                                                         *)
(* Lengths are in pixels.  Opacity is counted in units of 1/FadeDistance  *)
(* (1/200), so that 1 - translationY / 200 is the integer                  *)
(* FadeDistance - translationY and opacity 1 is FadeDistance.              *)
(***************************************************************************)
EXTENDS Integers, Sequences, FiniteSets, TLC

\* ---------------------------------------------------------------- constants
SheetTravel == 300
DistanceThreshold == 100
SpeedThreshold == 500
FadeDistance == 200
MinQuantity == 1

OpacityOne == FadeDistance
MinFadeOpacity == (3 * FadeDistance) \div 10

\* ------------------------------------------------------------------- bounds
MaxPans == 2
MaxQueue == 1
MaxFocus == 2
MaxQuantity == 2
MaxSubmits == 2

\* event.translationY and event.velocityY of the pan gesture's events
Translations == {-40, 100, 160}
Velocities == {-600, 500, 600}

Max(a, b) == IF a >= b THEN a ELSE b
Min(a, b) == IF a <= b THEN a ELSE b
Abs(a) == IF a >= 0 THEN a ELSE -a

\* panPeak before the first event of a gesture: below every translation
NoPeak == (-4) * SheetTravel

VARIABLES
  props,            \* the BottomSheet's props that decide behaviour
  translateY,       \* shared value: the sheet's vertical offset
  overlayOpacity,   \* shared value: the overlay's opacity
  animY,            \* the animation running on translateY
  animO,            \* the animation running on overlayOpacity, with its callback
  rnQueue,          \* callbacks handed to scheduleOnRN, not yet run
  closeCount,       \* calls of onClose, by what asked for the close
  exitDone,         \* exit animations that completed with finished = true
  overridden,       \* override handlers of the caller that were called
  panActive,        \* a pan gesture is in progress
  panId,            \* number of the current (or last) pan gesture
  panPeak,          \* largest translationY of the current gesture so far
  panClass,         \* per gesture: how its release compares with the thresholds
  visible,          \* ProductDetailsScreen's visible state
  focused,          \* the screen has focus
  cycle,            \* number of the current (or last) focus of the screen
  timerCycle,       \* the focus whose entrance timer is pending, or 0
  rafPending,       \* focuses whose requestAnimationFrame callback is pending
  blurredEarly,     \* focuses that ended before their entrance timer fired
  shownBy,          \* focuses whose callback ran setVisible(true)
  nav,              \* where the router is: "details", "back" or "cart"
  productQuery,     \* useProduct: "idle" (not mounted yet), "loading", "error", "data"
  product,          \* productQuery.data.product
  selectedOptions,  \* ProductDetails' selectedOptions state: option id -> value
  quantity,         \* ProductDetails' quantity state
  requests,         \* the calls of addToDraftOrder.mutate, with their status
  errorLogged       \* calls of console.error by the mutation's onError

sheetVars == <<translateY, overlayOpacity, animY, animO, rnQueue>>
panVars == <<panActive, panId, panPeak, panClass>>
screenVars == <<visible, focused, cycle, timerCycle, rafPending, blurredEarly, shownBy>>
productVars == <<productQuery, product, selectedOptions, quantity, requests, errorLogged>>
vars == <<props, sheetVars, exitDone, closeCount, overridden, panVars, screenVars, nav,
          productVars>>

\* ------------------------------------------------------------ BottomSheet
\* What can ask for a close: a pan gesture (by number), the overlay tap, the
\* close icon, the platform's back action.
PanSrc(g) == <<"pan", g>>
OverlaySrc == <<"overlay", 0>>
IconSrc == <<"icon", 0>>
BackSrc == <<"back", 0>>
NoSrc == <<"none", 0>>
Sources == {PanSrc(g) : g \in 1..(MaxPans + 1)} \cup {OverlaySrc, IconSrc, BackSrc}

NoCallback == [fn |-> "none", src |-> NoSrc]
HandleCloseCb(s) == [fn |-> "handleClose", src |-> s]
IconCallback == [fn |-> "callback", src |-> IconSrc]

Idle == [kind |-> "none", to |-> 0, phase |-> 0, cb |-> NoCallback]
withTiming(to, cb) == [kind |-> "timing", to |-> to, phase |-> 0, cb |-> cb]
withSpring(to) == [kind |-> "spring", to |-> to, phase |-> 0, cb |-> NoCallback]

\* withDecay({velocity, clamp: [0, 300]}): the value coasts by about
\* velocity / 2 (deceleration 0.998 per ms) and stops at the clamp.
DecayEnd(from, velocity) ==
  LET raw == from + velocity \div 2
  IN  IF velocity > 0
        THEN (IF from >= SheetTravel THEN from ELSE Min(raw, SheetTravel))
        ELSE (IF from <= 0 THEN from ELSE Max(raw, 0))
withDecay(from, velocity) ==
  [kind |-> "decay", to |-> DecayEnd(from, velocity), phase |-> 0, cb |-> NoCallback]

\* The value an animation shows between its start and its end: a timing or
\* decay animation is half way, the underdamped spring (stiffness 100,
\* damping 8) is at its overshoot beyond the target.
MidValue(a, cur) ==
  IF a.kind = "spring" THEN a.to + (a.to - cur) \div 4 ELSE (cur + a.to) \div 2

\* (a callback that ignores finished)
CallbackSchedulesAlways(cb, finished) == cb.fn # "none"

\* The callbacks given to withTiming: (finished) => { if (finished) { scheduleOnRN(handleClose) } }
\* and, in animateOut, if (finished && callback) { scheduleOnRN(callback) }
CallbackSchedules(cb, finished) == finished /\ cb.fn # "none"

\* Assigning to overlayOpacity ends the animation running on it: that
\* animation's callback is called with finished = false.
QueueAfterCancel ==
  IF animO.kind # "none" /\ CallbackSchedules(animO.cb, FALSE)
    THEN Append(rnQueue, animO.cb)
    ELSE rnQueue

StartAnimations(y, o) ==
  /\ animY' = y
  /\ animO' = o
  /\ rnQueue' = QueueAfterCancel
  /\ UNCHANGED <<translateY, overlayOpacity>>

animateIn == StartAnimations(withTiming(0, NoCallback), withTiming(OpacityOne, NoCallback))

animateOut(callback) ==
  StartAnimations(withTiming(SheetTravel, NoCallback), withTiming(0, callback))

\* router.back() / router.dismissTo(): the screen is left and unmounted; the
\* focus effect's cleanup clears the entrance timer.
Mounted == nav = "details"

\* (a cleanup that leaves the timer running)
ClearTimeoutNoop(t) == t

ClearTimeout(t) == 0

LoseFocus ==
  /\ focused' = FALSE
  /\ timerCycle' = ClearTimeout(timerCycle)
  /\ blurredEarly' = IF timerCycle # 0 THEN blurredEarly \cup {timerCycle} ELSE blurredEarly
  /\ UNCHANGED <<visible, cycle, rafPending, shownBy>>

RouterLeave(dest) ==
  IF Mounted
    THEN nav' = dest /\ LoseFocus
    ELSE UNCHANGED <<nav, screenVars>>

\* onClose?.() of the screen: () => router.back()
onClose(src) ==
  /\ closeCount' = [closeCount EXCEPT ![src] = @ + 1]
  /\ RouterLeave("back")

\* (the fade without its floor)
FadeOpacityNoFloor(t) == OpacityOne - t

\* panGesture.onChange
FadeOpacity(t) == Max(MinFadeOpacity, OpacityOne - t)

PanStart ==
  /\ Mounted /\ visible /\ ~panActive /\ panId < MaxPans
  /\ panActive' = TRUE
  /\ panId' = panId + 1
  /\ panPeak' = NoPeak
  /\ UNCHANGED <<panClass, props, sheetVars, exitDone, closeCount, overridden, screenVars, nav, productVars>>

PanOnChange(t) ==
  /\ Mounted /\ panActive
  /\ panPeak' = Max(panPeak, t)
  /\ IF t > 0
       THEN /\ translateY' = t
            /\ animY' = Idle
            /\ overlayOpacity' = FadeOpacity(t)
            /\ animO' = Idle
            /\ rnQueue' = QueueAfterCancel
       ELSE UNCHANGED sheetVars
  /\ UNCHANGED <<panActive, panId, panClass, props, exitDone, closeCount, overridden, screenVars, nav, productVars>>

\* (the thresholds taken as inclusive)
ShouldCloseInclusive(t, v) == t >= DistanceThreshold \/ v >= SpeedThreshold

\* panGesture.onFinalize
ShouldClose(t, v) == t > DistanceThreshold \/ v > SpeedThreshold

\* How a released gesture compares with the thresholds: "low" when its peak
\* distance and its release speed are both within them, "high" when its
\* release distance or its release velocity is above.
ReleaseClass(peak, t, v) ==
  IF peak <= DistanceThreshold /\ Abs(v) <= SpeedThreshold THEN "low"
  ELSE IF t > DistanceThreshold \/ v > SpeedThreshold THEN "high"
  ELSE "other"

PanOnFinalize(t, v) ==
  /\ Mounted /\ panActive
  /\ panActive' = FALSE
  /\ panPeak' = NoPeak
  /\ panClass' = [panClass EXCEPT ![panId] = ReleaseClass(Max(panPeak, t), t, v)]
  /\ IF ShouldClose(t, v)
       THEN IF Abs(v) > SpeedThreshold
              THEN StartAnimations(withDecay(translateY, v),
                                   withTiming(0, HandleCloseCb(PanSrc(panId))))
              ELSE StartAnimations(withTiming(SheetTravel, NoCallback),
                                   withTiming(0, HandleCloseCb(PanSrc(panId))))
       ELSE StartAnimations(withSpring(0), withSpring(OpacityOne))
  /\ UNCHANGED <<panId, props, exitDone, closeCount, overridden, screenVars, nav, productVars>>

\* overlayTapGesture.onEnd
OverlayTapOnEnd ==
  /\ Mounted /\ visible
  /\ IF props.dismissOnOverlayPress
       THEN IF props.onOverlayPress
              THEN overridden' = overridden \cup {OverlaySrc} /\ UNCHANGED sheetVars
              ELSE /\ StartAnimations(withTiming(SheetTravel, NoCallback),
                                      withTiming(0, HandleCloseCb(OverlaySrc)))
                   /\ UNCHANGED overridden
       ELSE UNCHANGED <<sheetVars, overridden>>
  /\ UNCHANGED <<props, exitDone, closeCount, panVars, screenVars, nav, productVars>>

\* handleCloseIconPress
HandleCloseIconPress ==
  /\ Mounted /\ visible /\ props.showCloseButton
  /\ IF props.onCloseIconPress
       THEN overridden' = overridden \cup {IconSrc} /\ UNCHANGED sheetVars
       ELSE animateOut(IconCallback) /\ UNCHANGED overridden
  /\ UNCHANGED <<props, exitDone, closeCount, panVars, screenVars, nav, productVars>>

\* onRequestClose (the Modal's back action)
OnRequestClose ==
  /\ Mounted /\ visible
  /\ IF props.onRequestClose
       THEN overridden' = overridden \cup {BackSrc} /\ UNCHANGED <<closeCount, nav, screenVars>>
       ELSE onClose(BackSrc) /\ UNCHANGED overridden
  /\ UNCHANGED <<props, sheetVars, exitDone, panVars, productVars>>

\* One frame of the UI thread: every running animation advances, from its
\* start to its intermediate value and from there to its end.  An animation
\* on overlayOpacity that ends calls its callback with finished = true, which
\* hands its function to scheduleOnRN.
Advance(a, cur) ==
  IF a.kind = "none" THEN <<cur, a>>
  ELSE IF a.phase = 0 THEN <<MidValue(a, cur), [a EXCEPT !.phase = 1]>>
  ELSE <<a.to, Idle>>

Ends(a) == a.kind # "none" /\ a.phase = 1

Frame ==
  /\ Mounted
  /\ animY.kind # "none" \/ animO.kind # "none"
  /\ translateY' = Advance(animY, translateY)[1]
  /\ animY' = Advance(animY, translateY)[2]
  /\ overlayOpacity' = Advance(animO, overlayOpacity)[1]
  /\ animO' = Advance(animO, overlayOpacity)[2]
  /\ exitDone' = IF Ends(animO) /\ animO.cb.fn # "none"
                   THEN [exitDone EXCEPT ![animO.cb.src] = @ + 1]
                   ELSE exitDone
  /\ IF Ends(animO) /\ CallbackSchedules(animO.cb, TRUE)
       THEN Len(rnQueue) < MaxQueue /\ rnQueue' = Append(rnQueue, animO.cb)
       ELSE UNCHANGED rnQueue
  /\ UNCHANGED <<props, closeCount, overridden, panVars, screenVars, nav, productVars>>

\* The RN thread runs a scheduled function: handleClose, or the close
\* icon's callback; both call onClose?.().
RunOnRN ==
  /\ rnQueue # << >>
  /\ rnQueue' = Tail(rnQueue)
  /\ onClose(Head(rnQueue).src)
  /\ UNCHANGED <<translateY, overlayOpacity, animY, animO, exitDone, props, overridden,
                 panVars, productVars>>

\* --------------------------------------------------------- ProductDetails
\* Products the query may return.  A variant lists (option_id, value) pairs;
\* a value of "" stands for a missing (null) value.
Opt(o, v) == [option_id |-> o, value |-> v]
Variant(id, opts) == [id |-> id, options |-> opts]
OptionDef(id, values) == [id |-> id, values |-> values]

ColorProduct ==
  [options |-> <<OptionDef("color", <<"Red", "Blue">>)>>,
   variants |-> <<Variant("v_red", <<Opt("color", "Red")>>),
                  Variant("v_blue", <<Opt("color", "Blue")>>)>>]
ColorSizeProduct ==
  [options |-> <<OptionDef("color", <<"Red", "Blue">>), OptionDef("size", <<"S", "M">>)>>,
   variants |-> <<Variant("v_red_s", <<Opt("color", "Red"), Opt("size", "S")>>),
                  Variant("v_blue_m", <<Opt("color", "Blue"), Opt("size", "M")>>)>>]
BareFirstProduct ==
  [options |-> <<OptionDef("color", <<"Red">>)>>,
   variants |-> <<Variant("v_plain", <<Opt("color", "")>>),
                  Variant("v_red", <<Opt("color", "Red")>>)>>]
NoVariantsProduct ==
  [options |-> <<OptionDef("color", <<"Red">>)>>, variants |-> << >>]
Products == {ColorProduct, ColorSizeProduct, BareFirstProduct, NoVariantsProduct}

NoProduct == [options |-> << >>, variants |-> << >>]
NoVariant == Variant("undefined", << >>)
EmptyOptions == [k \in {} |-> ""]

\* {...prev, [key]: value}
Assign(obj, key, value) ==
  [k \in (DOMAIN obj) \cup {key} |-> IF k = key THEN value ELSE obj[k]]

\* firstVariant.options?.reduce(...) of the effect on productQuery.data
RECURSIVE ReduceOptions(_, _)
ReduceOptions(opts, acc) ==
  IF opts = << >> THEN acc
  ELSE LET option == Head(opts)
       IN  ReduceOptions(Tail(opts),
                         IF option.value # "" /\ option.option_id # ""
                           THEN Assign(acc, option.option_id, option.value)
                           ELSE acc)

InitialOptions(p) ==
  IF p.variants # << >> THEN ReduceOptions(p.variants[1].options, EmptyOptions)
  ELSE EmptyOptions

\* (the callback with some in place of every)
VariantMatchesSome(variant, sel) ==
  \E optionId \in DOMAIN sel :
    \E i \in 1..Len(variant.options) :
      variant.options[i].option_id = optionId /\ variant.options[i].value = sel[optionId]

\* The callback of variants?.find: Object.entries(selectedOptions).every(...)
VariantMatches(variant, sel) ==
  \A optionId \in DOMAIN sel :
    \E i \in 1..Len(variant.options) :
      variant.options[i].option_id = optionId /\ variant.options[i].value = sel[optionId]

\* Array.prototype.find: the first element the callback accepts
FindVariant(variants, sel) ==
  LET hits == {i \in 1..Len(variants) : VariantMatches(variants[i], sel)}
  IN  IF hits = {} THEN NoVariant
      ELSE variants[CHOOSE i \in hits : \A j \in hits : i <= j]

selectedVariant ==
  IF productQuery = "data" THEN FindVariant(product.variants, selectedOptions) ELSE NoVariant

\* ProductDetails is rendered inside the Modal, so it is on screen while the
\* screen is mounted and visible.
DetailsShown == Mounted /\ visible

\* useProduct resolves
ProductLoaded(p) ==
  /\ DetailsShown /\ productQuery = "loading"
  /\ productQuery' = "data"
  /\ product' = p
  /\ selectedOptions' = InitialOptions(p)
  /\ UNCHANGED <<quantity, requests, errorLogged, props, sheetVars, exitDone, closeCount,
                 overridden, panVars, screenVars, nav>>

ProductFailed ==
  /\ DetailsShown /\ productQuery = "loading"
  /\ productQuery' = "error"
  /\ UNCHANGED <<product, selectedOptions, quantity, requests, errorLogged, props, sheetVars,
                 exitDone, closeCount, overridden, panVars, screenVars, nav>>

\* OptionPicker onValueChange of option number o, for its value number i
OptionValueChange(o, i) ==
  /\ DetailsShown /\ productQuery = "data"
  /\ o \in 1..Len(product.options)
  /\ i \in 1..Len(product.options[o].values)
  /\ selectedOptions' =
       Assign(selectedOptions, product.options[o].id, product.options[o].values[i])
  /\ UNCHANGED <<productQuery, product, quantity, requests, errorLogged, props, sheetVars,
                 exitDone, closeCount, overridden, panVars, screenVars, nav>>

\* QuantityPicker (min = 1) calling onQuantityChange = setQuantity
QuantityChange(q) ==
  /\ DetailsShown /\ productQuery = "data"
  /\ q \in {quantity - 1, quantity + 1}
  /\ q >= MinQuantity /\ q <= MaxQuantity
  /\ quantity' = q
  /\ UNCHANGED <<productQuery, product, selectedOptions, requests, errorLogged, props,
                 sheetVars, exitDone, closeCount, overridden, panVars, screenVars, nav>>

\* useAddToDraftOrder: isPending follows the latest call of mutate
IsPending == requests # << >> /\ requests[Len(requests)].status = "pending"

\* (isPending not passed to the Button)
ButtonIsPendingNever == FALSE

\* The Button's props
ButtonDisabled == selectedVariant = NoVariant
ButtonIsPending == IsPending

\* Button: a press reaches onPress unless the button is disabled or pending
ButtonPressable(disabled, isPending) == ~disabled /\ ~isPending

\* (the first variant submitted instead of the selected one)
SubmittedItemsFirstVariant == <<[quantity |-> quantity, variant_id |-> product.variants[1].id]>>

\* the items passed to addToDraftOrder.mutate by onPress
SubmittedItems == <<[quantity |-> quantity, variant_id |-> selectedVariant.id]>>

AddToCartPress ==
  /\ DetailsShown /\ productQuery = "data"
  /\ Len(requests) < MaxSubmits
  /\ IF ButtonPressable(ButtonDisabled, ButtonIsPending) /\ selectedVariant # NoVariant
       THEN requests' = Append(requests, [items |-> SubmittedItems,
                                          options |-> selectedOptions,
                                          status |-> "pending"])
       ELSE UNCHANGED requests
  /\ UNCHANGED <<productQuery, product, selectedOptions, quantity, errorLogged, props,
                 sheetVars, exitDone, closeCount, overridden, panVars, screenVars, nav>>

\* The request succeeds.  The onSuccess passed to mutate runs for the latest
\* call while ProductDetails is still mounted: animateOut(), router.dismissTo.
MutationSuccess(i) ==
  /\ i \in 1..Len(requests) /\ requests[i].status = "pending"
  /\ requests' = [requests EXCEPT ![i].status = "success"]
  /\ IF DetailsShown /\ i = Len(requests)
       THEN animateOut(NoCallback) /\ RouterLeave("cart")
       ELSE UNCHANGED <<sheetVars, nav, screenVars>>
  /\ UNCHANGED <<productQuery, product, selectedOptions, quantity, errorLogged, props,
                 exitDone, closeCount, overridden, panVars>>

\* (an onError that dismisses like onSuccess)
onErrorDismisses ==
  /\ errorLogged' = errorLogged + 1
  /\ animateOut(NoCallback)
  /\ RouterLeave("cart")

\* onError of useAddToDraftOrder: console.error(...)
onError ==
  /\ errorLogged' = errorLogged + 1
  /\ UNCHANGED <<sheetVars, screenVars, nav>>

\* The request fails: the hook calls its onError.
MutationError(i) ==
  /\ i \in 1..Len(requests) /\ requests[i].status = "pending"
  /\ requests' = [requests EXCEPT ![i].status = "error"]
  /\ onError
  /\ UNCHANGED <<productQuery, product, selectedOptions, quantity, props,
                 exitDone, closeCount, overridden, panVars>>

\* ------------------------------------------------- ProductDetailsScreen
\* useFocusEffect callback: setVisible(false), setTimeout(..., 100).  With
\* visible false the Modal renders nothing, so ProductDetails is unmounted
\* and its state is lost.
Focus ==
  /\ Mounted /\ ~focused /\ cycle < MaxFocus
  /\ focused' = TRUE
  /\ cycle' = cycle + 1
  /\ visible' = FALSE
  /\ timerCycle' = cycle + 1
  /\ selectedOptions' = EmptyOptions
  /\ quantity' = MinQuantity
  /\ UNCHANGED <<rafPending, blurredEarly, shownBy, props, sheetVars, exitDone, closeCount,
                 overridden, panVars, nav, productQuery, product, requests, errorLogged>>

\* useFocusEffect cleanup: clearTimeout(timeoutId)
Blur ==
  /\ Mounted /\ focused
  /\ LoseFocus
  /\ UNCHANGED <<props, sheetVars, exitDone, closeCount, overridden, panVars, nav, productVars>>

\* the timeout callback: requestAnimationFrame(...)
TimerFire ==
  /\ timerCycle # 0
  /\ rafPending' = rafPending \cup {timerCycle}
  /\ timerCycle' = 0
  /\ UNCHANGED <<visible, focused, cycle, blurredEarly, shownBy, props, sheetVars, exitDone,
                 closeCount, overridden, panVars, nav, productVars>>

\* the animation-frame callback: setVisible(true).  When visible changes, the
\* BottomSheet's effect on modalProps.visible runs animateIn and
\* ProductDetails is mounted: its query starts (or is served from the cache,
\* and the effect on productQuery.data sets the initial options).
RafFire(c) ==
  /\ c \in rafPending
  /\ rafPending' = rafPending \ {c}
  /\ IF Mounted
       THEN /\ visible' = TRUE
            /\ shownBy' = shownBy \cup {c}
            /\ IF ~visible
                 THEN /\ animateIn
                      /\ productQuery' = IF productQuery = "idle" THEN "loading" ELSE productQuery
                      /\ selectedOptions' =
                           IF productQuery = "data" THEN InitialOptions(product)
                           ELSE EmptyOptions
                 ELSE UNCHANGED <<sheetVars, productQuery, selectedOptions>>
       ELSE UNCHANGED <<visible, shownBy, sheetVars, productQuery, selectedOptions>>
  /\ UNCHANGED <<focused, cycle, timerCycle, blurredEarly, props, exitDone, closeCount,
                 overridden, panVars, nav, product, quantity, requests, errorLogged>>

\* ------------------------------------------------------------------ system
\* The props ProductDetailsScreen passes, and two other callers: one that shows
\* the close icon and turns the overlay tap off, one that overrides every handler.
ScreenProps ==
  [showCloseButton |-> FALSE, dismissOnOverlayPress |-> TRUE, onOverlayPress |-> FALSE,
   onCloseIconPress |-> FALSE, onRequestClose |-> FALSE]
IconProps ==
  [showCloseButton |-> TRUE, dismissOnOverlayPress |-> FALSE, onOverlayPress |-> FALSE,
   onCloseIconPress |-> FALSE, onRequestClose |-> FALSE]
OverrideProps ==
  [showCloseButton |-> TRUE, dismissOnOverlayPress |-> TRUE, onOverlayPress |-> TRUE,
   onCloseIconPress |-> TRUE, onRequestClose |-> TRUE]
PropsSet == {ScreenProps, IconProps, OverrideProps}

Init ==
  /\ props \in PropsSet
  /\ translateY = SheetTravel
  /\ overlayOpacity = 0
  /\ animY = Idle
  /\ animO = Idle
  /\ rnQueue = << >>
  /\ exitDone = [s \in Sources |-> 0]
  /\ closeCount = [s \in Sources |-> 0]
  /\ overridden = {}
  /\ panActive = FALSE
  /\ panId = 0
  /\ panPeak = NoPeak
  /\ panClass = [g \in 1..(MaxPans + 1) |-> "none"]
  /\ visible = FALSE
  /\ focused = TRUE
  /\ cycle = 1
  /\ timerCycle = 1
  /\ rafPending = {}
  /\ blurredEarly = {}
  /\ shownBy = {}
  /\ nav = "details"
  /\ productQuery = "idle"
  /\ product = NoProduct
  /\ selectedOptions = EmptyOptions
  /\ quantity = MinQuantity
  /\ requests = << >>
  /\ errorLogged = 0

\* The sheet while the screen keeps its first focus.
NextSheet ==
  \/ PanStart
  \/ \E t \in Translations : PanOnChange(t)
  \/ \E t \in Translations, v \in Velocities : PanOnFinalize(t, v)
  \/ OverlayTapOnEnd
  \/ HandleCloseIconPress
  \/ OnRequestClose
  \/ Frame
  \/ RunOnRN
  \/ TimerFire
  \/ \E c \in 1..(MaxFocus + 1) : RafFire(c)

SpecSheet == Init /\ [][NextSheet]_vars

\* The screen gaining and losing focus, with the closes that need no drag.
NextScreen ==
  \/ Focus
  \/ Blur
  \/ TimerFire
  \/ \E c \in 1..(MaxFocus + 1) : RafFire(c)
  \/ OverlayTapOnEnd
  \/ HandleCloseIconPress
  \/ OnRequestClose
  \/ Frame
  \/ RunOnRN

SpecScreen == Init /\ [][NextScreen]_vars

\* Timers and animation-frame callbacks that are due do run.
SpecScreenFair ==
  /\ SpecScreen
  /\ WF_vars(TimerFire)
  /\ \A c \in 1..(MaxFocus + 1) : WF_vars(RafFire(c))

\* ProductDetails in the sheet while the screen keeps its first focus.
NextProduct ==
  \/ TimerFire
  \/ \E c \in 1..(MaxFocus + 1) : RafFire(c)
  \/ \E p \in Products : ProductLoaded(p)
  \/ ProductFailed
  \/ \E o \in 1..2, i \in 1..2 : OptionValueChange(o, i)
  \/ \E q \in MinQuantity..MaxQuantity : QuantityChange(q)
  \/ AddToCartPress
  \/ \E i \in 1..MaxSubmits : MutationSuccess(i)
  \/ \E i \in 1..MaxSubmits : MutationError(i)
  \/ OnRequestClose
  \/ Frame

SpecProduct == Init /\ [][NextProduct]_vars

\* The whole program; the specifications above are its parts.
Next ==
  \/ NextSheet
  \/ NextScreen
  \/ NextProduct

Spec == Init /\ [][Next]_vars

\* ================================================================= claims
\* The (option id, value) pairs of a selection and of a variant.
SelectedPairs(sel) == {<<k, sel[k]>> : k \in DOMAIN sel}
VariantPairs(variant) ==
  {<<variant.options[i].option_id, variant.options[i].value>> : i \in 1..Len(variant.options)}
Candidates(variants, sel) ==
  {i \in 1..Len(variants) : SelectedPairs(sel) \subseteq VariantPairs(variants[i])}
AtMostOneVariant ==
  \/ selectedVariant = NoVariant
  \/ \E i \in Candidates(product.variants, selectedOptions) : selectedVariant = product.variants[i]
NoneWhenContradicted ==
  Candidates(product.variants, selectedOptions) = {} => selectedVariant = NoVariant

\* C1 (as stated): variant resolution returns at most one variant, and none
\* when the mapping is empty or contradicts every variant.
C1_Original ==
  productQuery = "data" =>
    /\ AtMostOneVariant
    /\ NoneWhenContradicted
    /\ selectedOptions = EmptyOptions => selectedVariant = NoVariant

\* C1 (amended): variant resolution returns at most one variant, a variant of
\* the list that contains every selected pair; it returns none when the
\* mapping contradicts every variant; with an empty mapping it returns the
\* first variant of the list, and none only when the list is empty.
C1_VariantResolution ==
  productQuery = "data" =>
    /\ AtMostOneVariant
    /\ NoneWhenContradicted
    /\ selectedOptions = EmptyOptions =>
         selectedVariant = IF product.variants = << >> THEN NoVariant ELSE product.variants[1]

C1_Witness ==
  /\ productQuery = "data"
  /\ product.variants # << >>
  /\ selectedOptions # EmptyOptions
  /\ Candidates(product.variants, selectedOptions) = {}
  /\ selectedVariant = NoVariant

\* C2: a drag whose peak downward distance is at most the distance threshold
\* and whose release speed is at most the speed threshold springs back to
\* offset 0 and opacity 1 when it is finalized, and onClose is never called
\* on account of that gesture.
C2_SnapBack ==
  [][/\ (panActive /\ ~panActive') =>
          \A t \in Translations, v \in Velocities :
            (PanOnFinalize(t, v) /\ Max(panPeak, t) <= DistanceThreshold
                                 /\ Abs(v) <= SpeedThreshold)
            => /\ animY' = withSpring(0)
               /\ animO' = withSpring(OpacityOne)
               /\ rnQueue' = rnQueue
               /\ closeCount' = closeCount
     /\ \A g \in 1..(MaxPans + 1) :
          panClass'[g] = "low"
            => /\ closeCount'[PanSrc(g)] = 0
               /\ exitDone'[PanSrc(g)] = 0
               /\ animO'.cb.src # PanSrc(g)
               /\ \A i \in 1..Len(rnQueue') : rnQueue'[i].src # PanSrc(g)
    ]_vars

C2_Witness ==
  /\ panId = 1 /\ panClass[1] = "low"
  /\ translateY = DistanceThreshold
  /\ animY = withSpring(0) /\ animO = withSpring(OpacityOne)

\* The exit animation of gesture g is neither running nor waiting to report.
Resolved(g) ==
  /\ ~(panActive /\ panId = g)
  /\ animO.cb.src # PanSrc(g)
  /\ \A i \in 1..Len(rnQueue) : rnQueue[i].src # PanSrc(g)

\* C3 (as stated): for a drag released above either threshold onClose fires
\* exactly once and only after the exit animation's completion, whatever
\* later events re-assign the animated values.
\* (Once no gesture is active, no animation is running and nothing is
\* scheduled, the close has fired: once for this drag, or at least by
\* whatever re-assigned the values.)
Settled ==
  /\ ~panActive
  /\ animY.kind = "none" /\ animO.kind = "none"
  /\ rnQueue = << >>

C3_Original ==
  \A g \in 1..(MaxPans + 1) :
    panClass[g] = "high" =>
      /\ closeCount[PanSrc(g)] <= exitDone[PanSrc(g)]
      /\ closeCount[PanSrc(g)] <= 1
      /\ Settled => \E s \in Sources : closeCount[s] >= 1

\* C3 (amended): for a drag released above either threshold onClose fires at
\* most once and only after the exit animation has signalled completion
\* (finished = true), and exactly once for a completion that was signalled;
\* a later event that re-assigns the overlay opacity before that cancels the
\* animation, and onClose then does not fire for that drag.  No other drag
\* closes the sheet.
C3_CloseAfterExit ==
  \A g \in 1..(MaxPans + 1) :
    /\ closeCount[PanSrc(g)] <= exitDone[PanSrc(g)]
    /\ exitDone[PanSrc(g)] <= 1
    /\ exitDone[PanSrc(g)] > 0 => panClass[g] = "high"
    /\ Resolved(g) => closeCount[PanSrc(g)] = exitDone[PanSrc(g)]

C3_Witness ==
  \E g \in 1..(MaxPans + 1) : panClass[g] = "high" /\ closeCount[PanSrc(g)] = 1

\* C4: every explicit close without an override handler (close icon, overlay
\* tap, back action) calls onClose only after its exit animation completed.
C4_ExplicitCloseAnimates ==
  \A s \in {IconSrc, OverlaySrc, BackSrc} : closeCount[s] <= exitDone[s]

\* C5: the navigation to the cart happens only after the exit animation
\* started by animateOut has completed: when the router is at the cart the
\* sheet is at the end of its exit (offset 300, overlay opacity 0).
C5_NavigateAfterExit ==
  nav = "cart" => (translateY = SheetTravel /\ overlayOpacity = 0)

\* C6: while no variant is resolved or a submission is pending no step starts
\* a submission; at most one submission is pending at a time and none is
\* sent without a variant.
PendingRequests(reqs) == {i \in 1..Len(reqs) : reqs[i].status = "pending"}
C6_DisabledWhileUnresolvedOrPending ==
  [][/\ (selectedVariant = NoVariant \/ IsPending) => Len(requests') = Len(requests)
     /\ Cardinality(PendingRequests(requests')) <= 1
     /\ \A i \in 1..Len(requests') :
          /\ Len(requests'[i].items) = 1
          /\ requests'[i].items[1].variant_id # NoVariant.id
    ]_vars

C6_Witness ==
  /\ DetailsShown /\ productQuery = "data"
  /\ IsPending
  /\ Len(requests) < MaxSubmits
  /\ selectedVariant # NoVariant

\* C7: each focus resets visible to false and starts the entrance timer;
\* visible is set to true only by the animation-frame callback the timer of a
\* focus requested; a focus that ended before its timer fired has its timer
\* cancelled and never sets visible to true; a focus whose timer is pending
\* leads to visible being set by it, unless it ends first.
C7_FocusCycle ==
  /\ \A c \in 1..(MaxFocus + 1) :
       (timerCycle = c) ~> (c \in shownBy \/ c \in blurredEarly \/ ~Mounted)
  /\ [][/\ cycle' # cycle => (cycle' = cycle + 1 /\ ~visible' /\ timerCycle' = cycle' /\ focused')
        /\ (rafPending' \ rafPending) \subseteq {timerCycle}
        /\ (visible' /\ ~visible) => \E c \in rafPending \ rafPending' : c \in shownBy'
        /\ shownBy' # shownBy => \E c \in rafPending \ rafPending' : shownBy' = shownBy \cup {c}
        /\ (focused /\ ~focused' /\ timerCycle # 0) => timerCycle \in blurredEarly'
        /\ \A c \in blurredEarly' :
             c # timerCycle' /\ c \notin rafPending' /\ c \notin shownBy'
       ]_vars

C7_Witness ==
  /\ 1 \in blurredEarly
  /\ 2 \in shownBy
  /\ visible

\* C8: a failed submission is only logged: the step changes no animation, no
\* navigation, no close and no selection, the mutation is no longer pending,
\* and with the selection that was submitted the button can be pressed again.
C8_FailureOnlyLogged ==
  [][errorLogged' # errorLogged =>
       /\ errorLogged' = errorLogged + 1
       /\ UNCHANGED <<sheetVars, exitDone, closeCount, nav, screenVars>>
       /\ UNCHANGED <<selectedOptions, quantity, product, productQuery>>
       /\ \E i \in 1..Len(requests) :
            /\ requests[i].status = "pending" /\ requests'[i].status = "error"
            /\ (i = Len(requests) => ~IsPending')
            /\ (DetailsShown /\ i = Len(requests) /\ selectedOptions = requests[i].options)
                 => ButtonPressable(ButtonDisabled', ButtonIsPending')
    ]_vars

C8_Witness ==
  /\ DetailsShown
  /\ requests # << >>
  /\ requests[Len(requests)].status = "error"
  /\ selectedOptions = requests[Len(requests)].options
  /\ Len(requests) < MaxSubmits

\* C9: a press that submits sends exactly one item, with the quantity picker's
\* value and the id of the variant the selection resolves to (the first
\* variant of the list that contains every selected pair); with Color
\* Red/Blue, Blue selected and quantity 2 it sends {2, blue variant}.
C9_SubmittedItem ==
  [][Len(requests') # Len(requests) =>
       LET r == requests'[Len(requests')]
           cands == Candidates(product.variants, selectedOptions)
       IN  /\ Len(requests') = Len(requests) + 1
           /\ Len(r.items) = 1
           /\ r.items[1].quantity = quantity
           /\ \E i \in cands :
                /\ \A j \in cands : i <= j
                /\ r.items[1].variant_id = product.variants[i].id
           /\ (product = ColorProduct /\ SelectedPairs(selectedOptions) = {<<"color", "Blue">>}
                 /\ quantity = 2)
                => r.items = <<[quantity |-> 2, variant_id |-> "v_blue"]>>
    ]_vars

C9_Witness ==
  /\ product = ColorProduct
  /\ requests # << >>
  /\ requests[1].items = <<[quantity |-> 2, variant_id |-> "v_blue"]>>

\* C10 (as stated): after every change event of a drag the offset is
\* non-negative and the overlay opacity within [0.3, 1]; a positive
\* translation sets offset and opacity, a non-positive one changes neither.
TracksDrag(t) ==
  IF t > 0
    THEN /\ translateY' = t
         /\ overlayOpacity' = IF OpacityOne - t >= MinFadeOpacity THEN OpacityOne - t
                              ELSE MinFadeOpacity
    ELSE /\ translateY' = translateY /\ overlayOpacity' = overlayOpacity
         /\ animY' = animY /\ animO' = animO

C10_Original ==
  [][(panActive /\ panActive') =>
     \A t \in Translations :
       PanOnChange(t) =>
         /\ TracksDrag(t)
         /\ translateY' >= 0
         /\ overlayOpacity' >= MinFadeOpacity /\ overlayOpacity' <= OpacityOne
    ]_vars

\* C10 (amended): a change event with positive translation sets the offset to
\* the translation and the overlay opacity to max(0.3, 1 - translation/200),
\* so that after it the offset is positive and the opacity within [0.3, 1]; a
\* change event with non-positive translation leaves offset and opacity (and
\* the animations running on them) unchanged, whatever their values.
C10_TracksDownwardDrag ==
  [][(panActive /\ panActive') =>
     \A t \in Translations :
       PanOnChange(t) =>
         /\ TracksDrag(t)
         /\ t > 0 => /\ translateY' > 0
                     /\ overlayOpacity' >= MinFadeOpacity /\ overlayOpacity' <= OpacityOne
    ]_vars

C10_Witness ==
  /\ panActive
  /\ translateY = 160
  /\ overlayOpacity = MinFadeOpacity
  /\ animO = Idle

\* C11: the entrance sequence never sets sheet visibility to true while the
\* screen is unfocused: every step in which visible changes from false to
\* true is taken while the screen is focused.
C11_ShownOnlyWhileFocused ==
  [][(~visible /\ visible') => (focused /\ focused')]_vars

====
